---- MODULE Spec2Model ----
(***************************************************************************)
(* A model of smile_volume: the hysteresis state machine (state.py), the   *)
(* rate-limited volume controller (volume.py), the smile detector's score  *)
(* conditioning (detector.py), the calibrator (calibration.py) and the     *)
(* controller that composes them (__main__.py).                            *)
(*                                                                         *)
(* Scores and thresholds are Python floats in [0.0, 1.0]; the model keeps  *)
(* them as integers in thousandths (0.5 is 500).  Times are milliseconds.  *)
(***************************************************************************)
EXTENDS Integers, Sequences, FiniteSets, TLC

VARIABLES
    now,            \* time.time(), in milliseconds
    state_machine,  \* the HysteresisStateMachine object
    sm_hist,        \* history of the last HysteresisStateMachine.update call
    volume,         \* the VolumeController object
    vol_hist,       \* history of the last VolumeController.set_volume call
    detector,       \* the SmileDetector object
    det_hist,       \* history of the last SmileDetector.get_smile_score call
    config,         \* Config._data (the persisted thresholds and frame counts)
    running,        \* SmileVolumeController.running
    enabled,        \* SmileVolumeController.enabled
    ctl,            \* the control thread: its position and calibrate()'s locals
    loops           \* the _detection_loop threads: position and locals of each

vars == <<now, state_machine, sm_hist, volume, vol_hist, detector, det_hist,
          config, running, enabled, ctl, loops>>

\* Python's None in an Optional[float] or Optional[int]: no score, no value
None == -1

Min(a, b) == IF a < b THEN a ELSE b
Max(a, b) == IF a > b THEN a ELSE b

-----------------------------------------------------------------------------
(* Bounds of the model *)

MaxOnFrames == 3
MaxOffFrames == 5
StartTime == 1000
MaxTime == 1900
MaxFaces == 3
MaxPolls == 1
MaxLoops == 2
MaxSamples == 3

-----------------------------------------------------------------------------
(* config.py *)

\* Config.DEFAULT_CONFIG
DefaultOnThreshold == 500
DefaultOffThreshold == 150
DefaultOnFrames == 3
DefaultOffFrames == 5
FaceTimeoutMs == 800
EmaBeta == 700

\* SmileVolumeController.__init__: VolumeController(min_interval_ms=250)
MinIntervalMs == 250

\* Config._data, the keys the model uses
DefaultConfig ==
    [smile_on_threshold |-> DefaultOnThreshold,
     smile_off_threshold |-> DefaultOffThreshold,
     on_frames |-> DefaultOnFrames, off_frames |-> DefaultOffFrames]

-----------------------------------------------------------------------------
(* state.py *)

NOT_SMILING == "not_smiling"
SMILING == "smiling"

\* HysteresisStateMachine.__init__ raises ValueError for these arguments
SMRejects(on_threshold, off_threshold) == off_threshold >= on_threshold

\* HysteresisStateMachine.__init__: the object it builds when it does not raise
NewStateMachine(on_threshold, off_threshold, on_frames, off_frames) ==
    [on_threshold |-> on_threshold, off_threshold |-> off_threshold,
     on_frames |-> on_frames, off_frames |-> off_frames,
     state |-> NOT_SMILING, on_counter |-> 0, off_counter |-> 0]

\* A variant of EffectiveScore in which no face counts as score 1.0
EffectiveScore_AbsentIsOne(score) == IF score = None THEN 1000 ELSE score

\* update, lines 52-54: no face counts as score 0.0
EffectiveScore(score) == IF score = None THEN 0 ELSE score

\* A variant of UpdateNotSmiling that keeps on_counter on a non-qualifying score
UpdateNotSmiling_NoReset(m, score) ==
    IF score >= m.on_threshold
    THEN IF m.on_counter + 1 >= m.on_frames
         THEN [m EXCEPT !.state = SMILING, !.on_counter = 0, !.off_counter = 0]
         ELSE [m EXCEPT !.on_counter = m.on_counter + 1, !.off_counter = 0]
    ELSE m

\* A variant of UpdateNotSmiling that keeps on_counter when it changes the state
UpdateNotSmiling_KeepsCount(m, score) ==
    IF score >= m.on_threshold
    THEN IF m.on_counter + 1 >= m.on_frames
         THEN [m EXCEPT !.state = SMILING, !.on_counter = m.on_counter + 1,
                        !.off_counter = 0]
         ELSE [m EXCEPT !.on_counter = m.on_counter + 1, !.off_counter = 0]
    ELSE [m EXCEPT !.on_counter = 0]

\* update, lines 58-67: the NOT_SMILING branch
UpdateNotSmiling(m, score) ==
    IF score >= m.on_threshold
    THEN IF m.on_counter + 1 >= m.on_frames
         THEN [m EXCEPT !.state = SMILING, !.on_counter = 0, !.off_counter = 0]
         ELSE [m EXCEPT !.on_counter = m.on_counter + 1, !.off_counter = 0]
    ELSE [m EXCEPT !.on_counter = 0]

\* A variant of UpdateSmiling that counts every score below on_threshold
UpdateSmiling_BelowOn(m, score) ==
    IF score < m.on_threshold
    THEN IF m.off_counter + 1 >= m.off_frames
         THEN [m EXCEPT !.state = NOT_SMILING, !.off_counter = 0, !.on_counter = 0]
         ELSE [m EXCEPT !.off_counter = m.off_counter + 1, !.on_counter = 0]
    ELSE [m EXCEPT !.off_counter = 0]

\* A variant of UpdateSmiling that compares off_counter > off_frames
UpdateSmiling_Late(m, score) ==
    IF score <= m.off_threshold
    THEN IF m.off_counter + 1 > m.off_frames
         THEN [m EXCEPT !.state = NOT_SMILING, !.off_counter = 0, !.on_counter = 0]
         ELSE [m EXCEPT !.off_counter = m.off_counter + 1, !.on_counter = 0]
    ELSE [m EXCEPT !.off_counter = 0]

\* A variant of UpdateSmiling that keeps off_counter on a non-qualifying score
UpdateSmiling_NoReset(m, score) ==
    IF score <= m.off_threshold
    THEN IF m.off_counter + 1 >= m.off_frames
         THEN [m EXCEPT !.state = NOT_SMILING, !.off_counter = 0, !.on_counter = 0]
         ELSE [m EXCEPT !.off_counter = m.off_counter + 1, !.on_counter = 0]
    ELSE m

\* update, lines 69-78: the SMILING branch
UpdateSmiling(m, score) ==
    IF score <= m.off_threshold
    THEN IF m.off_counter + 1 >= m.off_frames
         THEN [m EXCEPT !.state = NOT_SMILING, !.off_counter = 0, !.on_counter = 0]
         ELSE [m EXCEPT !.off_counter = m.off_counter + 1, !.on_counter = 0]
    ELSE [m EXCEPT !.off_counter = 0]

\* update, lines 52-78: the object after update(score)
UpdatedMachine(m, score) ==
    IF m.state = NOT_SMILING
    THEN UpdateNotSmiling(m, EffectiveScore(score))
    ELSE UpdateSmiling(m, EffectiveScore(score))

\* A variant of StateChanged that reads previous_state after the update
StateChanged_Stale(previous, m) == m.state # m.state

\* update, lines 56 and 80: state_changed
StateChanged(previous, m) == m.state # previous.state

\* update, line 81: the returned pair
UpdateResult(previous, m) ==
    [state |-> m.state, changed |-> StateChanged(previous, m)]

-----------------------------------------------------------------------------
(* The state machine on its own: any valid construction, any update sequence *)

\* Threshold values tried (0.15 and 0.5 are Config.DEFAULT_CONFIG's)
ThresholdValues == {150, 220, 500, 780}

\* Scores fed to update: None (no face) or a score in [0, 1]
ScoreInputs == {None, 0, 100, 150, 300, 500, 600, 780, 1000}

\* Does this score count toward leaving the machine's current state?
Qualifies(m, score) ==
    IF m.state = NOT_SMILING
    THEN EffectiveScore(score) >= m.on_threshold
    ELSE EffectiveScore(score) <= m.off_threshold

FramesToLeave(m) == IF m.state = NOT_SMILING THEN m.on_frames ELSE m.off_frames

\* What is remembered of one update(score) call made on machine m, giving m2:
\*   on_run, off_run  length of the run of immediately consecutive updates, ending
\*                    with this one, whose score was >= on_threshold (<= off_threshold)
\*   streak           number of updates since the current state was entered if every
\*                    one of them qualified for leaving it, else -1
\*   nth              this call's position in such a streak (0: not part of one)
UpdateHistory(h, m, score, m2) ==
    LET s == EffectiveScore(score)
        unbroken == h.streak >= 0 /\ Qualifies(m, score)
    IN  [called |-> TRUE,
         before |-> m,
         score |-> score,
         ret |-> UpdateResult(m, m2),
         on_run |-> IF s >= m.on_threshold
                    THEN Min(h.on_run + 1, m.on_frames + 1) ELSE 0,
         off_run |-> IF s <= m.off_threshold
                     THEN Min(h.off_run + 1, m.off_frames + 1) ELSE 0,
         nth |-> IF unbroken THEN h.streak + 1 ELSE 0,
         streak |-> IF m2.state # m.state THEN 0
                    ELSE IF unbroken
                         THEN Min(h.streak + 1, FramesToLeave(m) + 1)
                         ELSE -1]

FreshHistory ==
    [called |-> FALSE,
     before |-> NewStateMachine(DefaultOnThreshold, DefaultOffThreshold,
                                DefaultOnFrames, DefaultOffFrames),
     score |-> None,
     ret |-> [state |-> NOT_SMILING, changed |-> FALSE],
     on_run |-> 0, off_run |-> 0, nth |-> 0, streak |-> 0]

\* One call of state_machine.update(score)
SMStep(score) ==
    /\ state_machine' = UpdatedMachine(state_machine, score)
    /\ sm_hist' = UpdateHistory(sm_hist, state_machine, score, state_machine')
    /\ UNCHANGED <<now, volume, vol_hist, detector, det_hist, config, running,
                   enabled, ctl, loops>>

-----------------------------------------------------------------------------
(* time *)

\* How far the clock moves between two readings of time.time(): within and
\* beyond the 250 ms rate limit, and up to, onto and past the 800 ms face timeout
VolTickSteps == {100, 150}
DetTickSteps == {250, 300}

Tick(d) ==
    /\ now + d <= MaxTime
    /\ now' = now + d
    /\ UNCHANGED <<state_machine, sm_hist, volume, vol_hist, detector, det_hist,
                   config, running, enabled, ctl, loops>>

-----------------------------------------------------------------------------
(* volume.py *)

\* VolumeController.__init__
NewVolumeController(min_interval_ms) ==
    [min_interval_ms |-> min_interval_ms, last_set_time |-> 0,
     last_set_value |-> None]

\* set_volume, line 41: pct = max(0, min(100, int(pct)))
Clamp(pct) == Max(0, Min(100, pct))

\* A variant of Suppressed that rate-limits by time alone, whatever the value
Suppressed_AnyValue(v, pct, force, t) ==
    /\ ~force
    /\ v.last_set_value # None
    /\ (t - v.last_set_time) < v.min_interval_ms

\* set_volume, lines 43-48: the rate limit's early return
Suppressed(v, pct, force, t) ==
    /\ ~force
    /\ v.last_set_value = Clamp(pct)
    /\ (t - v.last_set_time) < v.min_interval_ms

\* set_volume, line 50: the number of osascript commands the call runs
CommandsIssued(v, pct, force, t) == IF Suppressed(v, pct, force, t) THEN 0 ELSE 1

\* set_volume raises (subprocess.CalledProcessError out of _run_osascript,
\* lines 20-26) when it runs the command and the command fails
SetVolumeRaises(v, pct, force, t, ok) == CommandsIssued(v, pct, force, t) > 0 /\ ~ok

\* set_volume, lines 41-52: the object after set_volume(pct, force) at time t,
\* the osascript command succeeding (ok) or failing
SetVolume(v, pct, force, t, ok) ==
    IF Suppressed(v, pct, force, t) \/ ~ok
    THEN v
    ELSE [v EXCEPT !.last_set_time = t, !.last_set_value = Clamp(pct)]

\* What is remembered of one set_volume call
VolumeHistory(v, pct, force, t, ok) ==
    [called |-> TRUE, before |-> v, pct |-> pct, force |-> force, at |-> t,
     issued |-> CommandsIssued(v, pct, force, t),
     raised |-> SetVolumeRaises(v, pct, force, t, ok)]

NoVolumeCall ==
    [called |-> FALSE, before |-> NewVolumeController(0), pct |-> 0,
     force |-> FALSE, at |-> 0, issued |-> 0, raised |-> FALSE]

\* Volume percentages asked for (out-of-range ones are clamped)
PctInputs == {-20, 50, 80, 130}

\* One call of volume.set_volume(pct, force)
VolStep(pct, force, ok) ==
    /\ volume' = SetVolume(volume, pct, force, now, ok)
    /\ vol_hist' = VolumeHistory(volume, pct, force, now, ok)
    /\ UNCHANGED <<now, state_machine, sm_hist, detector, det_hist, config,
                   running, enabled, ctl, loops>>

-----------------------------------------------------------------------------
(* detector.py *)

\* SmileDetector.__init__: cap is "none" (None), "open" (an opened
\* cv2.VideoCapture) or "closed" (a VideoCapture that failed to open or was
\* released); ema_beta is in thousandths
NewDetector(ema_beta, face_timeout_ms) ==
    [ema_beta |-> ema_beta, face_timeout_ms |-> face_timeout_ms,
     cap |-> "none", face_cascade |-> FALSE, emotion_session |-> FALSE,
     smoothed_score |-> 0, last_face_time |-> 0]

\* start raises RuntimeError: the camera does not open, or the model file is missing
StartRaises(opened, model_exists) == ~opened \/ ~model_exists

\* start, lines 47-71: the object after start() at time t
DetectorStart(d, opened, model_exists, t) ==
    IF ~opened
    THEN [d EXCEPT !.cap = "closed"]
    ELSE IF ~model_exists
         THEN [d EXCEPT !.cap = "open", !.face_cascade = TRUE]
         ELSE [d EXCEPT !.cap = "open", !.face_cascade = TRUE,
                        !.emotion_session = TRUE, !.last_face_time = t]

\* stop, lines 75-76
DetectorStop(d) == IF d.cap # "none" THEN [d EXCEPT !.cap = "closed"] ELSE d

\* get_smile_score, line 128: the objects start() sets are all there
Initialised(d) == d.cap # "none" /\ d.face_cascade /\ d.emotion_session

\* get_smile_score, lines 131-133: cap.read() gives a frame (never from a
\* capture that is not open; a read of an open one may fail: read_ok)
FrameRead(d, read_ok) == d.cap = "open" /\ read_ok

\* get_smile_score, lines 128-147: a face was detected in a frame that was read
\* (a present observation)
Present(d, read_ok, face) == Initialised(d) /\ FrameRead(d, read_ok) /\ face # None

\* A variant of Smooth that adds the weighted raw score to an undecayed accumulator
Smooth_Undecayed(d, raw_score) ==
    (d.ema_beta * raw_score + 1000 * d.smoothed_score) \div 1000

\* get_smile_score, lines 156-158: the EMA, floats kept to thousandths
Smooth(d, raw_score) ==
    (d.ema_beta * raw_score + (1000 - d.ema_beta) * d.smoothed_score) \div 1000

\* A variant of TimedOut that compares elapsed_ms >= face_timeout_ms
TimedOut_Inclusive(d, t) == (t - d.last_face_time) >= d.face_timeout_ms

\* get_smile_score, lines 164-165: the face timeout
TimedOut(d, t) == (t - d.last_face_time) > d.face_timeout_ms

\* A variant of DetectorAfterScore that clears the accumulator on a face timeout
DetectorAfterScore_ResetOnTimeout(d, read_ok, face, t) ==
    IF Present(d, read_ok, face)
    THEN [d EXCEPT !.smoothed_score = Smooth(d, face), !.last_face_time = t]
    ELSE IF Initialised(d) /\ FrameRead(d, read_ok) /\ TimedOut(d, t)
         THEN [d EXCEPT !.smoothed_score = 0]
         ELSE d

\* get_smile_score, lines 128-169: the object after the call at time t, the
\* frame read succeeding or not, with face = None (no face in the frame) or
\* the raw happiness score of the first face
DetectorAfterScore(d, read_ok, face, t) ==
    IF Present(d, read_ok, face)
    THEN [d EXCEPT !.smoothed_score = Smooth(d, face), !.last_face_time = t]
    ELSE d

\* get_smile_score, lines 128-169: the value returned
SmileScore(d, read_ok, face, t) ==
    IF ~Initialised(d) \/ ~FrameRead(d, read_ok) THEN None
    ELSE IF face # None THEN Smooth(d, face)
    ELSE IF TimedOut(d, t) THEN None
    ELSE d.smoothed_score

\* Raw happiness scores of the face in a frame; None: no face in the frame
FaceInputs == {None, 100, 900}

\* What is remembered of one get_smile_score call, and of when the detector
\* last saw a face (last_present) and was last started (last_start), None: never,
\* and of how many faces it has scored
ScoreHistory(h, d, read_ok, face, t) ==
    [called |-> TRUE, before |-> d, read_ok |-> read_ok, face |-> face, at |-> t,
     ret |-> SmileScore(d, read_ok, face, t),
     last_present |-> IF Present(d, read_ok, face) THEN t ELSE h.last_present,
     last_start |-> h.last_start,
     faces |-> IF Present(d, read_ok, face) THEN h.faces + 1 ELSE h.faces]

NoScoreCall ==
    [called |-> FALSE, before |-> NewDetector(0, 0), read_ok |-> FALSE,
     face |-> None, at |-> 0, ret |-> None, last_present |-> None,
     last_start |-> None, faces |-> 0]

\* One call of detector.start()
DetStart(opened, model_exists) ==
    /\ detector' = DetectorStart(detector, opened, model_exists, now)
    /\ det_hist' = [det_hist EXCEPT
                      !.called = FALSE,
                      !.last_start = IF StartRaises(opened, model_exists)
                                     THEN @ ELSE now]
    /\ UNCHANGED <<now, state_machine, sm_hist, volume, vol_hist, config,
                   running, enabled, ctl, loops>>

\* One call of detector.stop()
DetStop ==
    /\ detector' = DetectorStop(detector)
    /\ det_hist' = [det_hist EXCEPT !.called = FALSE]
    /\ UNCHANGED <<now, state_machine, sm_hist, volume, vol_hist, config,
                   running, enabled, ctl, loops>>

\* One call of detector.get_smile_score()
DetScore(read_ok, face) ==
    /\ Present(detector, read_ok, face) => det_hist.faces < MaxFaces
    /\ detector' = DetectorAfterScore(detector, read_ok, face, now)
    /\ det_hist' = ScoreHistory(det_hist, detector, read_ok, face, now)
    /\ UNCHANGED <<now, state_machine, sm_hist, volume, vol_hist, config,
                   running, enabled, ctl, loops>>

-----------------------------------------------------------------------------
(* calibration.py *)

RECURSIVE Sum(_)
Sum(scores) == IF scores = <<>> THEN 0 ELSE Head(scores) + Sum(Tail(scores))

\* A variant of CaptureAverage that averages an empty session to 0.0
CaptureAverage_ZeroIfEmpty(scores) ==
    IF scores = <<>> THEN 0 ELSE Sum(scores) \div Len(scores)

\* _capture_average_score, lines 49-55: None for an empty session, else the mean
CaptureAverage(scores) ==
    IF scores = <<>> THEN None ELSE Sum(scores) \div Len(scores)

\* _capture_average_score, lines 36-38: the sample set after one poll
Collected(scores, score) == IF score # None THEN Append(scores, score) ELSE scores

\* A variant of Margin that takes 10% of the distance between the means
Margin_TenPercent(neutral_score, smile_score) ==
    ((smile_score - neutral_score) * 10) \div 100

\* run, line 85: margin = (smile_score - neutral_score) * 0.15
Margin(neutral_score, smile_score) == ((smile_score - neutral_score) * 15) \div 100

\* run, lines 86-87 and 95: the pair returned, smile_on and smile_off
Thresholds(neutral_score, smile_score) ==
    [smile_on |-> smile_score - Margin(neutral_score, smile_score),
     smile_off |-> neutral_score + Margin(neutral_score, smile_score)]

\* run, lines 71-72 and 81-82: return None, None
NoThresholds == [smile_on |-> None, smile_off |-> None]

-----------------------------------------------------------------------------
(* The components on their own *)

\* The control thread before start() or calibrate() is called, and no loop thread
NoControl == [pc |-> "idle", started |-> FALSE]
NoLoops == [i \in 1..MaxLoops |-> [pc |-> "none"]]

\* SpecSM: a state machine built with any valid arguments, fed any scores
InitSM ==
    /\ now = StartTime
    /\ \E on \in ThresholdValues, off \in ThresholdValues,
          nf \in 1..MaxOnFrames, ff \in 1..MaxOffFrames :
          /\ ~SMRejects(on, off)
          /\ state_machine = NewStateMachine(on, off, nf, ff)
    /\ sm_hist = FreshHistory
    /\ volume = NewVolumeController(MinIntervalMs)
    /\ vol_hist = NoVolumeCall
    /\ detector = NewDetector(EmaBeta, FaceTimeoutMs)
    /\ det_hist = NoScoreCall
    /\ config = DefaultConfig
    /\ running = FALSE
    /\ enabled = TRUE
    /\ ctl = NoControl
    /\ loops = NoLoops

NextSM == \E score \in ScoreInputs : SMStep(score)

SpecSM == InitSM /\ [][NextSM]_vars

\* SpecVol: the controller's VolumeController, called at any times
InitVol ==
    /\ now = StartTime
    /\ state_machine = NewStateMachine(DefaultOnThreshold, DefaultOffThreshold,
                                       DefaultOnFrames, DefaultOffFrames)
    /\ sm_hist = FreshHistory
    /\ volume = NewVolumeController(MinIntervalMs)
    /\ vol_hist = NoVolumeCall
    /\ detector = NewDetector(EmaBeta, FaceTimeoutMs)
    /\ det_hist = NoScoreCall
    /\ config = DefaultConfig
    /\ running = FALSE
    /\ enabled = TRUE
    /\ ctl = NoControl
    /\ loops = NoLoops

NextVol ==
    \/ \E d \in VolTickSteps : Tick(d)
    \/ \E pct \in PctInputs, force \in BOOLEAN, ok \in BOOLEAN :
          VolStep(pct, force, ok)

SpecVol == InitVol /\ [][NextVol]_vars

\* SpecDet: the controller's SmileDetector, started, read and stopped at any times
NextDet ==
    \/ \E d \in DetTickSteps : Tick(d)
    \/ \E opened \in BOOLEAN, model_exists \in BOOLEAN :
          DetStart(opened, model_exists)
    \/ DetStop
    \/ \E read_ok \in BOOLEAN, face \in FaceInputs : DetScore(read_ok, face)

SpecDet == InitVol /\ [][NextDet]_vars

\* Smoothing factors in (0, 1] and raw scores in [0, 1] tried
Betas == {1, 300, 700, 1000}
RawInputs == {None, 0, 100, 900, 1000}

\* SpecEma: a started detector with any smoothing factor, observing up to
\* MaxFaces faces of any raw score
InitEma ==
    /\ now = StartTime
    /\ state_machine = NewStateMachine(DefaultOnThreshold, DefaultOffThreshold,
                                       DefaultOnFrames, DefaultOffFrames)
    /\ sm_hist = FreshHistory
    /\ volume = NewVolumeController(MinIntervalMs)
    /\ vol_hist = NoVolumeCall
    /\ \E beta \in Betas :
          detector = DetectorStart(NewDetector(beta, FaceTimeoutMs),
                                   TRUE, TRUE, StartTime)
    /\ det_hist = [NoScoreCall EXCEPT !.last_start = StartTime]
    /\ config = DefaultConfig
    /\ running = FALSE
    /\ enabled = TRUE
    /\ ctl = NoControl
    /\ loops = NoLoops

NextEma == \E read_ok \in BOOLEAN, face \in RawInputs : DetScore(read_ok, face)

SpecEma == InitEma /\ [][NextEma]_vars

-----------------------------------------------------------------------------
(* Properties of the state machine, checked under SpecSM *)

\* C1: the state toggles only on an update that ends a run of at least
\* on_frames immediately consecutive updates with score >= on_threshold (into
\* SMILING), or of at least off_frames immediately consecutive updates with
\* score <= off_threshold (into NOT_SMILING); with a frame count above 1 a
\* single qualifying sample never toggles it.
C1_ToggleIsCountGated ==
    (sm_hist.called /\ sm_hist.ret.changed) =>
        IF sm_hist.ret.state = SMILING
        THEN /\ sm_hist.on_run >= sm_hist.before.on_frames
             /\ sm_hist.before.on_frames > 1 => sm_hist.on_run > 1
        ELSE /\ sm_hist.off_run >= sm_hist.before.off_frames
             /\ sm_hist.before.off_frames > 1 => sm_hist.off_run > 1

\* C1's case: a transition into SMILING of a machine that needs 3 frames, on a
\* run that an earlier non-qualifying score had interrupted
C1_Witness ==
    /\ sm_hist.called /\ sm_hist.ret.changed
    /\ sm_hist.ret.state = SMILING
    /\ sm_hist.before.on_frames = 3
    /\ sm_hist.on_run = 3
    /\ sm_hist.nth = 0

\* C2: counting the updates from the entry of a state (or from construction),
\* all of them qualifying for leaving it, update reports the transition on
\* exactly the on_frames-th (off_frames-th) of them and on none before.
C2_TransitionOnExactlyNth ==
    (sm_hist.called /\ sm_hist.nth >= 1) =>
        /\ sm_hist.ret.changed <=> (sm_hist.nth = FramesToLeave(sm_hist.before))
        /\ sm_hist.ret.changed =>
              sm_hist.ret.state =
                 (IF sm_hist.before.state = NOT_SMILING THEN SMILING ELSE NOT_SMILING)
        /\ ~sm_hist.ret.changed => sm_hist.ret.state = sm_hist.before.state

\* C2's case: on=0.5, off=0.15, on_frames=3, off_frames=5, back to NOT_SMILING
\* on the 5th sample of 0.1 after the machine entered SMILING
C2_Witness ==
    /\ sm_hist.called /\ sm_hist.ret.changed
    /\ sm_hist.ret.state = NOT_SMILING
    /\ sm_hist.nth = 5
    /\ sm_hist.score = 100
    /\ sm_hist.before.on_threshold = 500 /\ sm_hist.before.off_threshold = 150
    /\ sm_hist.before.on_frames = 3 /\ sm_hist.before.off_frames = 5

\* C3: update returns changed = TRUE exactly when the state stored after the
\* call differs from the state stored before it, and returns the stored state.
C3_ChangedIffStateDiffers ==
    sm_hist.called =>
        /\ sm_hist.ret.changed <=> (state_machine.state # sm_hist.before.state)
        /\ sm_hist.ret.state = state_machine.state

\* C3's case: an update that moved the stored state
C3_Witness ==
    /\ sm_hist.called
    /\ state_machine.state # sm_hist.before.state
    /\ sm_hist.ret.changed

\* The score the thresholds are compared with when update is given this one
AsScore(score) == IF score = None THEN 0 ELSE score

\* The machine after k consecutive update(None) calls
RECURSIVE AfterAbsent(_, _)
AfterAbsent(m, k) ==
    IF k = 0 THEN m ELSE AfterAbsent(UpdatedMachine(m, None), k - 1)

\* C16: in every state of the machine update(None) returns what update(0.0)
\* returns and leaves the machine update(0.0) leaves; off_frames consecutive
\* update(None) calls on a SMILING machine take it to NOT_SMILING.
C16_AbsentIsZero ==
    /\ (sm_hist.called /\ sm_hist.score = None) =>
          /\ state_machine = UpdatedMachine(sm_hist.before, 0)
          /\ sm_hist.ret = UpdateResult(sm_hist.before,
                                        UpdatedMachine(sm_hist.before, 0))
    /\ UpdatedMachine(state_machine, None) = UpdatedMachine(state_machine, 0)
    /\ state_machine.state = SMILING =>
          AfterAbsent(state_machine, state_machine.off_frames).state = NOT_SMILING

\* C16's case: the fifth update(None) in a row takes a SMILING machine with
\* off_frames = 5 to NOT_SMILING
C16_Witness ==
    /\ sm_hist.called /\ sm_hist.score = None
    /\ sm_hist.before.state = SMILING
    /\ sm_hist.before.off_frames = 5 /\ sm_hist.before.off_counter = 4
    /\ sm_hist.ret.changed /\ state_machine.state = NOT_SMILING

\* C17: right after an update that changes the state both counters are zero,
\* and an update whose score does not qualify for leaving the current state
\* (below on_threshold while NOT_SMILING, above off_threshold while SMILING)
\* leaves that direction's counter at zero.
C17_CountersReset ==
    sm_hist.called =>
        LET b == sm_hist.before
            s == AsScore(sm_hist.score)
        IN  /\ sm_hist.ret.changed =>
                  (state_machine.on_counter = 0 /\ state_machine.off_counter = 0)
            /\ (b.state = NOT_SMILING /\ s < b.on_threshold) =>
                  state_machine.on_counter = 0
            /\ (b.state = SMILING /\ s > b.off_threshold) =>
                  state_machine.off_counter = 0

\* C17's case: a SMILING machine two frames into leaving is given 0.3, above
\* its off_threshold, and its off_counter is back at zero
C17_Witness ==
    /\ sm_hist.called
    /\ sm_hist.before.state = SMILING
    /\ sm_hist.before.off_counter = 2
    /\ sm_hist.score = 300 /\ sm_hist.before.off_threshold = 150
    /\ state_machine.off_counter = 0 /\ state_machine.state = SMILING

\* C22: with positive on_frames and off_frames, after every sequence of
\* updates 0 <= on_counter < on_frames and 0 <= off_counter < off_frames,
\* on_counter is 0 while SMILING and off_counter is 0 while NOT_SMILING.
C22_CountersBounded ==
    /\ 0 <= state_machine.on_counter
    /\ state_machine.on_counter < state_machine.on_frames
    /\ 0 <= state_machine.off_counter
    /\ state_machine.off_counter < state_machine.off_frames
    /\ state_machine.state = SMILING => state_machine.on_counter = 0
    /\ state_machine.state = NOT_SMILING => state_machine.off_counter = 0

\* C22's case: after updates the machine is one frame short of leaving SMILING
\* with off_frames = 5
C22_Witness ==
    /\ sm_hist.called
    /\ state_machine.state = SMILING
    /\ state_machine.off_frames = 5
    /\ state_machine.off_counter = 4
    /\ state_machine.on_counter = 0

\* C23: with off_threshold < on_threshold, an update with a score strictly
\* between the two never changes the state, in either state and whatever the
\* counters, and zeroes the counter of the current state's pending transition.
C23_DeadBandHolds ==
    (/\ sm_hist.called
     /\ sm_hist.before.off_threshold < sm_hist.before.on_threshold
     /\ sm_hist.score # None
     /\ sm_hist.before.off_threshold < sm_hist.score
     /\ sm_hist.score < sm_hist.before.on_threshold)
    => /\ ~sm_hist.ret.changed
       /\ state_machine.state = sm_hist.before.state
       /\ sm_hist.ret.state = sm_hist.before.state
       /\ sm_hist.before.state = NOT_SMILING => state_machine.on_counter = 0
       /\ sm_hist.before.state = SMILING => state_machine.off_counter = 0

\* C23's case: a NOT_SMILING machine (0.5, 0.15) two frames into entering
\* SMILING is given 0.3, stays NOT_SMILING and has its on_counter back at zero
C23_Witness ==
    /\ sm_hist.called
    /\ sm_hist.before.state = NOT_SMILING
    /\ sm_hist.before.on_threshold = 500 /\ sm_hist.before.off_threshold = 150
    /\ sm_hist.before.on_counter = 2
    /\ sm_hist.score = 300
    /\ state_machine.state = NOT_SMILING /\ state_machine.on_counter = 0

-----------------------------------------------------------------------------
(* Properties of the volume controller, checked under SpecVol *)

\* C6: without force, set_volume is suppressed (no command, committed value and
\* time unchanged) if and only if the clamped value equals the last committed
\* value and less than min_interval has passed since that commit; otherwise it
\* issues exactly one command.
C6_SuppressedIffSameAndRecent ==
    (vol_hist.called /\ ~vol_hist.force) =>
        LET b == vol_hist.before
            clamped == IF vol_hist.pct < 0 THEN 0
                       ELSE IF vol_hist.pct > 100 THEN 100 ELSE vol_hist.pct
            same == b.last_set_value = clamped
            recent == vol_hist.at - b.last_set_time < MinIntervalMs
        IN  /\ (vol_hist.issued = 0 /\ volume = b) <=> (same /\ recent)
            /\ ~(same /\ recent) => vol_hist.issued = 1

\* C6's case: set(50) again within min_interval of the commit of 50, suppressed
C6_Witness ==
    /\ vol_hist.called /\ ~vol_hist.force
    /\ vol_hist.pct = 50
    /\ vol_hist.before.last_set_value = 50
    /\ vol_hist.at - vol_hist.before.last_set_time = 200
    /\ vol_hist.issued = 0

\* C7: with force, set_volume always issues a command and records (value, now)
\* as the committed state.
C7_ForceAlwaysCommits ==
    (vol_hist.called /\ vol_hist.force) =>
        /\ vol_hist.issued = 1
        /\ volume.last_set_value = Clamp(vol_hist.pct)
        /\ volume.last_set_time = vol_hist.at

-----------------------------------------------------------------------------
(* Properties of the detector, checked under SpecDet *)

\* C8 as stated: once a face has been seen, get_smile_score returns None if and
\* only if more than face_timeout_ms has passed since the last present
\* observation, and otherwise, without a face, the smoothed value unchanged.
C8_AbsentIffTimeout ==
    (det_hist.called /\ det_hist.last_present # None) =>
        /\ (det_hist.ret = None) <=>
              (det_hist.at - det_hist.last_present > FaceTimeoutMs)
        /\ (det_hist.face = None /\ det_hist.ret # None) =>
              det_hist.ret = det_hist.before.smoothed_score

\* C8, amended: get_smile_score returns None if and only if the detector is not
\* initialised, or the camera read fails, or no face is detected and more than
\* face_timeout_ms has passed since the later of the last present observation
\* and the last successful start(); on every other cycle without a face it
\* returns the smoothed value and leaves the detector unchanged.
C8_AbsentIffTimeoutOrFailure ==
    det_hist.called =>
        LET b == det_hist.before
            ready == b.cap # "none" /\ b.face_cascade /\ b.emotion_session
            frame == b.cap = "open" /\ det_hist.read_ok
            since == Max(det_hist.last_present, det_hist.last_start)
            expired == det_hist.at - since > FaceTimeoutMs
        IN  /\ (det_hist.ret = None) <=>
                  (~ready \/ ~frame \/ (det_hist.face = None /\ expired))
            /\ (ready /\ frame /\ det_hist.face = None /\ ~expired) =>
                  /\ det_hist.ret = b.smoothed_score
                  /\ detector = b

\* C8's case: a face was seen, then a frame without one is read more than
\* face_timeout_ms later: None
C8_Witness ==
    /\ det_hist.called
    /\ det_hist.before.cap = "open" /\ det_hist.read_ok
    /\ det_hist.face = None
    /\ det_hist.last_present # None
    /\ det_hist.last_present >= det_hist.last_start
    /\ det_hist.at - det_hist.last_present > FaceTimeoutMs
    /\ det_hist.ret = None

\* The last get_smile_score call found no face in a frame it read
NoFaceCall ==
    /\ det_hist.called
    /\ Initialised(det_hist.before) /\ FrameRead(det_hist.before, det_hist.read_ok)
    /\ det_hist.face = None

\* The last get_smile_score call found a face in a frame it read
PresentCall ==
    /\ det_hist.called
    /\ Initialised(det_hist.before) /\ FrameRead(det_hist.before, det_hist.read_ok)
    /\ det_hist.face # None

\* C19: with a smoothing factor in (0, 1] and raw scores in [0, 1], a present
\* observation moves the accumulator toward the raw score and never past it,
\* and the accumulator stays within [0, 1].
C19_EmaMovesTowardRaw ==
    /\ detector.smoothed_score >= 0 /\ detector.smoothed_score <= 1000
    /\ PresentCall =>
          LET old == det_hist.before.smoothed_score
              raw == det_hist.face
              new == detector.smoothed_score
          IN  /\ old <= raw => (old <= new /\ new <= raw)
              /\ old >= raw => (raw <= new /\ new <= old)
              /\ det_hist.ret = new

\* C19's case: a second observation of raw score 0.9 with beta 0.7 moves the
\* accumulator from 0.63 to 0.819
C19_Witness ==
    /\ PresentCall
    /\ det_hist.before.ema_beta = 700
    /\ det_hist.face = 900
    /\ det_hist.before.smoothed_score = 630
    /\ detector.smoothed_score = 819

\* C20: a get_smile_score call that finds no face, whether it echoes the last
\* value or returns None, leaves the accumulator and last_face_time as they
\* were; the next present observation is smoothed against that accumulator.
C20_NoFaceLeavesAccumulator ==
    /\ NoFaceCall =>
          /\ detector.smoothed_score = det_hist.before.smoothed_score
          /\ detector.last_face_time = det_hist.before.last_face_time
          /\ det_hist.ret \in {None, det_hist.before.smoothed_score}
    /\ NoFaceCall =>
          \A raw \in FaceInputs \ {None} :
             DetectorAfterScore(detector, TRUE, raw, now).smoothed_score =
                (det_hist.before.ema_beta * raw
                 + (1000 - det_hist.before.ema_beta) * det_hist.before.smoothed_score)
                \div 1000

\* C20's case: a call that returns None on the face timeout with 0.63 in the
\* accumulator, which is still 0.63 after it
C20_Witness ==
    /\ NoFaceCall
    /\ det_hist.ret = None
    /\ det_hist.at - det_hist.before.last_face_time > FaceTimeoutMs
    /\ det_hist.before.smoothed_score = 630
    /\ detector.smoothed_score = 630
    /\ detector.last_face_time = det_hist.before.last_face_time

-----------------------------------------------------------------------------
(* __main__.py: SmileVolumeController *)

\* The locals of calibrate() and of the Calibrator it runs (was_running,
\* scores, neutral_score, smile_score, smile_on, smile_off) before the call and
\* after it returned, with what is remembered of the call for the properties:
\* the config and the machine's thresholds when it was entered, the session
\* being sampled, the polls made in each session, and whether an exception is
\* on its way out (raised)
NoCalibration ==
    [was_running |-> FALSE, session |-> 0, scores |-> <<>>,
     neutral_score |-> None, smile_score |-> None,
     smile_on |-> None, smile_off |-> None,
     entry_config |-> DefaultConfig, entry_on |-> None, entry_off |-> None,
     polls |-> <<0, 0>>, raised |-> FALSE]

\* The control thread (main, and the menu bar callbacks it runs) right after
\* SmileVolumeController.__init__: its position pc, whether start() was
\* called, and calibrate()'s frame
Constructed ==
    [pc |-> "idle", started |-> FALSE, cal |-> NoCalibration]

\* A _detection_loop thread: its position ("none": no such thread).  Its locals
\* score, state and state_changed live within one LoopBody step.
LoopAt(pc) == [pc |-> pc]

NewLoop == LoopAt("start")

\* The threads that have not left _detection_loop.  At most MaxLoops of them
\* exist at a time: a thread that has finished frees its place.
Live == {i \in DOMAIN loops : loops[i].pc \notin {"none", "done"}}

\* threading.Thread(target=self._detection_loop).start(), lines 113-114 and 160-161
Spawned ==
    LET free == CHOOSE i \in DOMAIN loops :
                   /\ i \notin Live
                   /\ \A j \in DOMAIN loops : j \notin Live => i <= j
    IN  [loops EXCEPT ![free] = NewLoop]

\* start, lines 110-114
CtlStart ==
    /\ ctl.pc = "idle" /\ ~ctl.started
    /\ running' = TRUE
    /\ loops' = Spawned
    /\ ctl' = [ctl EXCEPT !.started = TRUE]
    /\ UNCHANGED <<now, state_machine, sm_hist, volume, vol_hist, detector,
                   det_hist, config, enabled>>

\* toggle_enabled, line 130 (a menu bar callback, so after start)
CtlToggle ==
    /\ ctl.pc = "idle" /\ ctl.started
    /\ enabled' = ~enabled
    /\ UNCHANGED <<now, state_machine, sm_hist, volume, vol_hist, detector,
                   det_hist, config, running, ctl, loops>>

\* stop, lines 125-126; the process then exits
CtlStop ==
    /\ ctl.pc = "idle" /\ ctl.started
    /\ running' = FALSE
    /\ ctl' = [ctl EXCEPT !.pc = "stopped"]
    /\ UNCHANGED <<now, state_machine, sm_hist, volume, vol_hist, detector,
                   det_hist, config, enabled, loops>>

\* calibrate, lines 136-138: was_running = self.running; self.running = False;
\* the sleep of 0.5 s waits for nothing
CalEnter ==
    /\ ctl.pc = "idle" /\ Cardinality(Live) < MaxLoops
    /\ running' = FALSE
    /\ ctl' = [ctl EXCEPT !.pc = "cal_start",
                          !.cal = [NoCalibration EXCEPT
                                     !.was_running = running,
                                     !.entry_config = config,
                                     !.entry_on = state_machine.on_threshold,
                                     !.entry_off = state_machine.off_threshold]]
    /\ UNCHANGED <<now, state_machine, sm_hist, volume, vol_hist, detector,
                   det_hist, config, enabled, loops>>

\* calibrate, lines 141-142: self.detector.start(); a RuntimeError goes to finally
CalDetectorStart(opened, model_exists) ==
    /\ ctl.pc = "cal_start"
    /\ detector' = DetectorStart(detector, opened, model_exists, now)
    /\ UNCHANGED det_hist
    /\ ctl' = IF StartRaises(opened, model_exists)
              THEN [ctl EXCEPT !.pc = "cal_finally", !.cal.raised = TRUE]
              ELSE [ctl EXCEPT !.pc = "cal_poll", !.cal.session = 1]
    /\ UNCHANGED <<now, state_machine, sm_hist, volume, vol_hist, config,
                   running, enabled, loops>>

\* _capture_average_score, lines 35-45: one poll of the session's loop.  The
\* 5 s window is kept as a number of polls, at least one and at most window.
CalPollWithin(window, read_ok, face) ==
    /\ ctl.pc = "cal_poll" /\ ctl.cal.polls[ctl.cal.session] < window
    /\ detector' = DetectorAfterScore(detector, read_ok, face, now)
    /\ UNCHANGED det_hist
    /\ ctl' = [ctl EXCEPT
                 !.cal.scores = Collected(@, SmileScore(detector, read_ok, face, now)),
                 !.cal.polls[ctl.cal.session] = @ + 1]
    /\ UNCHANGED <<now, state_machine, sm_hist, volume, vol_hist, config,
                   running, enabled, loops>>

\* A poll of a calibration of the running controller
CalPoll(read_ok, face) == CalPollWithin(MaxPolls, read_ok, face)

\* A poll of a calibration on its own
CalSample(read_ok, face) == CalPollWithin(MaxSamples, read_ok, face)

\* run, lines 69-72: the neutral session ends; None, None if it is empty
CalEndNeutral ==
    /\ ctl.pc = "cal_poll" /\ ctl.cal.session = 1 /\ ctl.cal.polls[1] >= 1
    /\ ctl' = IF CaptureAverage(ctl.cal.scores) = None
              THEN [ctl EXCEPT !.pc = "cal_apply",
                               !.cal.smile_on = NoThresholds.smile_on,
                               !.cal.smile_off = NoThresholds.smile_off]
              ELSE [ctl EXCEPT !.cal.neutral_score = CaptureAverage(ctl.cal.scores),
                               !.cal.session = 2, !.cal.scores = <<>>]
    /\ UNCHANGED <<now, state_machine, sm_hist, volume, vol_hist, detector,
                   det_hist, config, running, enabled, loops>>

\* run, lines 79-95: the smiling session ends; None, None if it is empty,
\* else the thresholds
CalEndSmile ==
    /\ ctl.pc = "cal_poll" /\ ctl.cal.session = 2 /\ ctl.cal.polls[2] >= 1
    /\ ctl' = IF CaptureAverage(ctl.cal.scores) = None
              THEN [ctl EXCEPT !.pc = "cal_apply",
                               !.cal.smile_on = NoThresholds.smile_on,
                               !.cal.smile_off = NoThresholds.smile_off]
              ELSE LET th == Thresholds(ctl.cal.neutral_score, CaptureAverage(ctl.cal.scores))
                   IN  [ctl EXCEPT !.pc = "cal_apply",
                                   !.cal.smile_score = CaptureAverage(ctl.cal.scores),
                                   !.cal.smile_on = th.smile_on,
                                   !.cal.smile_off = th.smile_off]
    /\ UNCHANGED <<now, state_machine, sm_hist, volume, vol_hist, detector,
                   det_hist, config, running, enabled, loops>>

\* calibrate, line 145: are there thresholds to apply?
HasThresholds(smile_on, smile_off) == smile_on # None /\ smile_off # None

\* calibrate, lines 143-145
CalApply ==
    /\ ctl.pc = "cal_apply"
    /\ ctl' = IF HasThresholds(ctl.cal.smile_on, ctl.cal.smile_off)
              THEN [ctl EXCEPT !.pc = "cal_cfg_on"]
              ELSE [ctl EXCEPT !.pc = "cal_finally"]
    /\ UNCHANGED <<now, state_machine, sm_hist, volume, vol_hist, detector,
                   det_hist, config, running, enabled, loops>>

\* calibrate, line 146: self.config.smile_on_threshold = smile_on (set and save)
CalSaveOn ==
    /\ ctl.pc = "cal_cfg_on"
    /\ config' = [config EXCEPT !.smile_on_threshold = ctl.cal.smile_on]
    /\ ctl' = [ctl EXCEPT !.pc = "cal_cfg_off"]
    /\ UNCHANGED <<now, state_machine, sm_hist, volume, vol_hist, detector,
                   det_hist, running, enabled, loops>>

\* calibrate, line 147: self.config.smile_off_threshold = smile_off
CalSaveOff ==
    /\ ctl.pc = "cal_cfg_off"
    /\ config' = [config EXCEPT !.smile_off_threshold = ctl.cal.smile_off]
    /\ ctl' = [ctl EXCEPT !.pc = "cal_sm_on"]
    /\ UNCHANGED <<now, state_machine, sm_hist, volume, vol_hist, detector,
                   det_hist, running, enabled, loops>>

\* calibrate, line 150: self.state_machine.on_threshold = smile_on
CalSetOn ==
    /\ ctl.pc = "cal_sm_on"
    /\ state_machine' = [state_machine EXCEPT !.on_threshold = ctl.cal.smile_on]
    /\ ctl' = [ctl EXCEPT !.pc = "cal_sm_off"]
    /\ UNCHANGED <<now, sm_hist, volume, vol_hist, detector, det_hist, config,
                   running, enabled, loops>>

\* calibrate, line 151: self.state_machine.off_threshold = smile_off
CalSetOff ==
    /\ ctl.pc = "cal_sm_off"
    /\ state_machine' = [state_machine EXCEPT !.off_threshold = ctl.cal.smile_off]
    /\ ctl' = [ctl EXCEPT !.pc = "cal_finally"]
    /\ UNCHANGED <<now, sm_hist, volume, vol_hist, detector, det_hist, config,
                   running, enabled, loops>>

\* A variant of CalFinally that leaves the detector running
CalFinally_SkipsStop ==
    /\ ctl.pc = "cal_finally"
    /\ UNCHANGED <<detector, det_hist>>
    /\ ctl' = IF ctl.cal.was_running
              THEN [ctl EXCEPT !.pc = "cal_resume"]
              ELSE [ctl EXCEPT !.pc = IF ctl.started THEN "idle" ELSE "exited",
                               !.cal = NoCalibration]
    /\ UNCHANGED <<now, state_machine, sm_hist, volume, vol_hist, config,
                   running, enabled, loops>>

\* calibrate, lines 155-156: finally: self.detector.stop()
CalFinally ==
    /\ ctl.pc = "cal_finally"
    /\ detector' = DetectorStop(detector)
    /\ UNCHANGED det_hist
    /\ ctl' = IF ctl.cal.was_running
              THEN [ctl EXCEPT !.pc = "cal_resume"]
              ELSE [ctl EXCEPT !.pc = IF ctl.started THEN "idle" ELSE "exited",
                               !.cal = NoCalibration]
    /\ UNCHANGED <<now, state_machine, sm_hist, volume, vol_hist, config,
                   running, enabled, loops>>

\* calibrate, lines 158-162: self.running = True and a new loop thread
CalResume ==
    /\ ctl.pc = "cal_resume"
    /\ running' = TRUE
    /\ loops' = Spawned
    /\ ctl' = [ctl EXCEPT !.pc = "idle", !.cal = NoCalibration]
    /\ UNCHANGED <<now, state_machine, sm_hist, volume, vol_hist, detector,
                   det_hist, config, enabled>>

\* _detection_loop, line 68: self.detector.start(); a RuntimeError goes to
\* except and finally
LoopStart(i, opened, model_exists) ==
    /\ loops[i].pc = "start"
    /\ detector' = DetectorStart(detector, opened, model_exists, now)
    /\ UNCHANGED det_hist
    /\ loops' = [loops EXCEPT ![i] = IF StartRaises(opened, model_exists)
                                     THEN LoopAt("finally") ELSE LoopAt("check")]
    /\ UNCHANGED <<now, state_machine, sm_hist, volume, vol_hist, config,
                   running, enabled, ctl>>

\* A variant of LoopCheck in which a disabled loop sleeps and continues without
\* testing self.running
LoopCheck_DisabledSkipsTest(i) ==
    /\ loops[i].pc = "check"
    /\ loops' = [loops EXCEPT ![i] = IF ~enabled THEN LoopAt("check")
                                     ELSE IF ~running THEN LoopAt("finally")
                                     ELSE LoopAt("body")]
    /\ UNCHANGED <<now, state_machine, sm_hist, volume, vol_hist, detector,
                   det_hist, config, running, enabled, ctl>>

\* _detection_loop, lines 71-74: while self.running; if not self.enabled:
\* sleep and continue
LoopCheck(i) ==
    /\ loops[i].pc = "check"
    /\ loops' = [loops EXCEPT ![i] = IF ~running THEN LoopAt("finally")
                                     ELSE IF ~enabled THEN LoopAt("check")
                                     ELSE LoopAt("body")]
    /\ UNCHANGED <<now, state_machine, sm_hist, volume, vol_hist, detector,
                   det_hist, config, running, enabled, ctl>>

\* A variant of TargetVolume that mutes on a smile
TargetVolume_Inverted(state) == IF state = NOT_SMILING THEN 100 ELSE 0

\* _detection_loop, lines 84-94: the volume implied by the new state
TargetVolume(state) == IF state = NOT_SMILING THEN 0 ELSE 100

\* _detection_loop, lines 77-99: the body of one iteration.
\*   score = self.detector.get_smile_score()
\*   state, state_changed = self.state_machine.update(score)
\*   if state_changed: self.volume.set_volume(0 or 100)
\* An exception of the volume command goes to except and finally.  The rest of
\* the iteration (_update_last_nonzero_volume, the sleep) changes nothing the
\* model keeps.
LoopBody(i, read_ok, face, ok) ==
    LET score == SmileScore(detector, read_ok, face, now)
        updated == UpdatedMachine(state_machine, score)
        result == UpdateResult(state_machine, updated)
        target == TargetVolume(result.state)
    IN  /\ loops[i].pc = "body"
        /\ detector' = DetectorAfterScore(detector, read_ok, face, now)
        /\ state_machine' = updated
        /\ volume' = IF result.changed
                     THEN SetVolume(volume, target, FALSE, now, ok)
                     ELSE volume
        /\ loops' = [loops EXCEPT ![i] =
                        IF result.changed
                           /\ SetVolumeRaises(volume, target, FALSE, now, ok)
                        THEN LoopAt("finally") ELSE LoopAt("check")]
        /\ UNCHANGED <<now, sm_hist, vol_hist, det_hist, config, running,
                       enabled, ctl>>

\* _detection_loop, lines 104-105: finally: self.detector.stop()
LoopFinally(i) ==
    /\ loops[i].pc = "finally"
    /\ detector' = DetectorStop(detector)
    /\ UNCHANGED det_hist
    /\ loops' = [loops EXCEPT ![i] = LoopAt("done")]
    /\ UNCHANGED <<now, state_machine, sm_hist, volume, vol_hist, config,
                   running, enabled, ctl>>

\* Configurations the controller is built with: the default thresholds, with
\* frame counts of 1 given on the command line (--on-frames 1 --off-frames 1)
Configs == {[DefaultConfig EXCEPT !.on_frames = 1, !.off_frames = 1]}

\* Outcomes of start() in the running controller: the camera opens or not;
\* the weights file is installed
CameraOpens == BOOLEAN
ModelExists == {TRUE}

\* Faces seen by the running controller: none, or a broad smile
CtlFaceInputs == {None, 900}

\* The controller's detector takes ema_beta from the config file: 1.0, no smoothing
CtlEmaBeta == 1000

\* SpecCtl: the controller after SmileVolumeController.__init__, driven by
\* main and the menu bar callbacks, with its loop threads.  The clock stands
\* still here: what the detector and the volume controller do as time passes
\* is the matter of SpecDet and SpecVol.
InitCtl ==
    /\ now = StartTime
    /\ config \in Configs
    /\ ~SMRejects(config.smile_on_threshold, config.smile_off_threshold)
    /\ state_machine = NewStateMachine(config.smile_on_threshold,
                                       config.smile_off_threshold,
                                       config.on_frames, config.off_frames)
    /\ sm_hist = FreshHistory
    /\ volume = NewVolumeController(MinIntervalMs)
    /\ vol_hist = NoVolumeCall
    /\ detector = NewDetector(CtlEmaBeta, FaceTimeoutMs)
    /\ det_hist = NoScoreCall
    /\ running = FALSE
    /\ enabled = TRUE
    /\ ctl = Constructed
    /\ loops = [i \in 1..MaxLoops |-> LoopAt("none")]

NextCtl ==
    \/ CtlStart
    \/ CtlToggle
    \/ CtlStop
    \/ CalEnter
    \/ \E opened \in CameraOpens, model_exists \in ModelExists :
          CalDetectorStart(opened, model_exists)
    \/ \E read_ok \in BOOLEAN, face \in CtlFaceInputs : CalPoll(read_ok, face)
    \/ CalEndNeutral
    \/ CalEndSmile
    \/ CalApply
    \/ CalSaveOn
    \/ CalSaveOff
    \/ CalSetOn
    \/ CalSetOff
    \/ CalFinally
    \/ CalResume
    \/ \E i \in DOMAIN loops, opened \in CameraOpens, model_exists \in ModelExists :
          LoopStart(i, opened, model_exists)
    \/ \E i \in DOMAIN loops : LoopCheck(i)
    \/ \E i \in DOMAIN loops, read_ok \in BOOLEAN, face \in CtlFaceInputs,
          ok \in BOOLEAN :
          LoopBody(i, read_ok, face, ok)
    \/ \E i \in DOMAIN loops : LoopFinally(i)

SpecCtl == InitCtl /\ [][NextCtl]_vars

\* The steps of loop thread i
LoopStep(i) ==
    \/ \E opened \in CameraOpens, model_exists \in ModelExists :
          LoopStart(i, opened, model_exists)
    \/ LoopCheck(i)
    \/ \E read_ok \in BOOLEAN, face \in CtlFaceInputs, ok \in BOOLEAN :
          LoopBody(i, read_ok, face, ok)
    \/ LoopFinally(i)

\* SpecCtlFair: SpecCtl with every loop thread scheduled again and again (a
\* started thread runs until _detection_loop returns); the control thread acts
\* when the user does
SpecCtlFair == SpecCtl /\ \A i \in 1..MaxLoops : WF_vars(LoopStep(i))

\* SpecCal: Calibrator.run on its own, in calibrate-and-exit mode (main, line
\* 203), from the point where calibrate() has started the detector; every
\* session polls up to MaxSamples frames
InitCal ==
    /\ now = StartTime
    /\ config = DefaultConfig
    /\ state_machine = NewStateMachine(DefaultOnThreshold, DefaultOffThreshold,
                                       DefaultOnFrames, DefaultOffFrames)
    /\ sm_hist = FreshHistory
    /\ volume = NewVolumeController(MinIntervalMs)
    /\ vol_hist = NoVolumeCall
    /\ detector = DetectorStart(NewDetector(CtlEmaBeta, FaceTimeoutMs),
                                TRUE, TRUE, StartTime)
    /\ det_hist = NoScoreCall
    /\ running = FALSE
    /\ enabled = TRUE
    /\ ctl = [Constructed EXCEPT
                !.pc = "cal_poll",
                !.cal = [NoCalibration EXCEPT
                           !.session = 1,
                           !.entry_on = state_machine.on_threshold,
                           !.entry_off = state_machine.off_threshold]]
    /\ loops = [i \in 1..MaxLoops |-> LoopAt("none")]

NextCal ==
    \/ \E read_ok \in BOOLEAN, face \in FaceInputs : CalSample(read_ok, face)
    \/ CalEndNeutral
    \/ CalEndSmile

SpecCal == InitCal /\ [][NextCal]_vars

-----------------------------------------------------------------------------
(* Properties of the calibrator, checked under SpecCal *)

\* x is the arithmetic mean of the samples, kept to thousandths
IsMeanOf(x, samples) ==
    /\ samples # <<>>
    /\ Len(samples) * x <= Sum(samples)
    /\ Sum(samples) < Len(samples) * (x + 1)

\* m is 0.15 * (smiling - neutral), kept to thousandths
IsMarginOf(m, neutral, smiling) ==
    /\ 100 * m <= 15 * (smiling - neutral)
    /\ 15 * (smiling - neutral) < 100 * (m + 1)

\* run has returned thresholds: both sessions collected a sample
RunReturnedThresholds ==
    /\ ctl.pc = "cal_apply"
    /\ ctl.cal.neutral_score # None /\ ctl.cal.smile_score # None

\* C11: when both sessions collect at least one sample, the neutral score is
\* the arithmetic mean of session 1's samples and the smiling score that of
\* session 2's, and run returns on_threshold = smiling - margin and
\* off_threshold = neutral + margin with margin = 0.15 * (smiling - neutral);
\* means of 0.1 and 0.9 give off_threshold 0.22 and on_threshold 0.78.
C11_ThresholdsFromMeans ==
    /\ [](RunReturnedThresholds =>
            /\ IsMeanOf(ctl.cal.smile_score, ctl.cal.scores)
            /\ \E m \in -1000..1000 :
                  /\ IsMarginOf(m, ctl.cal.neutral_score, ctl.cal.smile_score)
                  /\ ctl.cal.smile_on = ctl.cal.smile_score - m
                  /\ ctl.cal.smile_off = ctl.cal.neutral_score + m
            /\ (ctl.cal.neutral_score = 100 /\ ctl.cal.smile_score = 900) =>
                  (ctl.cal.smile_off = 220 /\ ctl.cal.smile_on = 780))
    /\ [][(ctl.cal.session = 1 /\ ctl'.cal.session = 2) =>
             IsMeanOf(ctl'.cal.neutral_score, ctl.cal.scores)]_vars

\* C11's case: sessions of constant scores 0.1 and 0.9, several samples each,
\* and run has returned 0.78 and 0.22
C11_Witness ==
    /\ RunReturnedThresholds
    /\ ctl.cal.polls[1] >= 2
    /\ ctl.cal.neutral_score = 100
    /\ ctl.cal.scores = <<900, 900>>
    /\ ctl.cal.smile_on = 780 /\ ctl.cal.smile_off = 220

-----------------------------------------------------------------------------
(* Properties of the controller, checked under SpecCtl *)

\* calibrate() is past calibrator.run(), line 143
AfterRun ==
    ctl.pc \in {"cal_apply", "cal_cfg_on", "cal_cfg_off", "cal_sm_on",
                "cal_sm_off", "cal_finally", "cal_resume"}

\* The config's and the state machine's thresholds are those calibrate() found
\* when it was entered
ThresholdsAsAtEntry ==
    /\ config.smile_on_threshold = ctl.cal.entry_config.smile_on_threshold
    /\ config.smile_off_threshold = ctl.cal.entry_config.smile_off_threshold
    /\ state_machine.on_threshold = ctl.cal.entry_on
    /\ state_machine.off_threshold = ctl.cal.entry_off

\* C4: an update of the state machine's thresholds with off_threshold >=
\* on_threshold, as calibrate() makes it with the pair the calibrator returned,
\* is rejected and leaves the machine as it was.
C4_InvalidUpdateRejected ==
    [][(/\ ctl.pc \in {"cal_sm_on", "cal_sm_off"}
        /\ ctl'.pc # ctl.pc
        /\ ctl.cal.smile_off >= ctl.cal.smile_on)
       => state_machine' = state_machine]_vars

\* C5: in every state of the controller, also between the two assignments of
\* a threshold replacement, the machine's thresholds satisfy
\* off_threshold < on_threshold.
C5_ThresholdsOrdered ==
    state_machine.off_threshold < state_machine.on_threshold

\* C9: when a session of the calibration collected no sample, run returns
\* None, None (without running the second session when the first is the empty
\* one), calibrate() applies nothing, and the config's and the machine's
\* thresholds stay what they were.
C9_EmptySessionFails ==
    (AfterRun /\ ctl.cal.session \in {1, 2} /\ ctl.cal.scores = <<>>) =>
        /\ ctl.cal.smile_on = None /\ ctl.cal.smile_off = None
        /\ ctl.cal.session = 1 => ctl.cal.polls[2] = 0
        /\ ctl.pc \in {"cal_apply", "cal_finally", "cal_resume"}
        /\ ThresholdsAsAtEntry

\* C9's case: the neutral session collected a sample, the smiling session was
\* polled and collected none, and calibrate() is about to resume the loop
C9_Witness ==
    /\ ctl.pc = "cal_resume"
    /\ ctl.cal.session = 2
    /\ ctl.cal.neutral_score # None
    /\ ctl.cal.polls[2] >= 1
    /\ ctl.cal.scores = <<>>
    /\ ThresholdsAsAtEntry

\* C10: when the calibration's session means have smiling <= neutral, it is a
\* failure: nothing is saved to the config and the machine keeps its
\* thresholds.
C10_DegenerateCalibrationFails ==
    (/\ ctl.pc \in {"cal_finally", "cal_resume"}
     /\ ctl.cal.neutral_score # None /\ ctl.cal.smile_score # None
     /\ ctl.cal.smile_score <= ctl.cal.neutral_score)
    => (ThresholdsAsAtEntry /\ ~ctl.cal.raised)

\* C12: a failure of one collaborator call in a cycle of the polling loop (the
\* camera read, the volume command) never ends the loop: the thread that
\* finishes an iteration goes back to the loop's test.
C12_LoopSurvivesFailure ==
    [][\A i \in DOMAIN loops :
          (loops[i].pc = "body" /\ loops'[i].pc # "body")
             => loops'[i].pc = "check"]_vars

\* calibrate() has started the detector for sampling (line 141 returned) and
\* has not yet stopped it (line 156)
Calibrating ==
    /\ ctl.pc \in {"cal_poll", "cal_apply", "cal_cfg_on", "cal_cfg_off",
                    "cal_sm_on", "cal_sm_off", "cal_finally"}
    /\ ~ctl.cal.raised

\* C13: from the moment calibrate() has started the detector until it has
\* stopped it, no loop thread executes an iteration (get_smile_score, update)
\* and none stops the detector.
C13_CalibrationExcludesPolling ==
    [][Calibrating =>
          \A i \in DOMAIN loops :
             loops[i].pc \in {"body", "finally"} => loops'[i] = loops[i]]_vars

\* calibrate() is between lines 150 and 151: the machine holds the new
\* on_threshold with the old off_threshold, a pair that is neither the old nor
\* the new one
TornPair ==
    /\ ctl.pc = "cal_sm_off"
    /\ state_machine.on_threshold = ctl.cal.smile_on
    /\ state_machine.off_threshold = ctl.cal.entry_off
    /\ ctl.cal.smile_on # ctl.cal.entry_on
    /\ ctl.cal.smile_off # ctl.cal.entry_off

\* C14: no update called by a loop thread runs on a machine that holds a torn
\* threshold pair, the new on_threshold with the old off_threshold.
C14_NoTornUpdate ==
    [][(\E i \in DOMAIN loops : loops[i].pc = "body" /\ loops'[i].pc # "body")
          => ~TornPair]_vars

\* stop() has set running to False; nothing sets it back
Stopped == ctl.pc = "stopped"

\* Every loop thread has returned from _detection_loop
LoopsTerminated == Live = {}

\* C15: the loop tests the running flag once per iteration, also while
\* disabled; once stop() has set it to False a loop thread starts no further
\* iteration, and eventually every loop thread has stopped the detector and
\* terminated.
C15_CooperativeCancellation ==
    /\ [][Stopped =>
            \A i \in DOMAIN loops :
               /\ loops'[i].pc = "body" => loops[i].pc = "body"
               /\ (loops[i].pc = "check" /\ loops'[i] # loops[i])
                     => loops'[i].pc = "finally"]_vars
    /\ Stopped ~> (LoopsTerminated /\ detector.cap = "closed")

\* C15's case: stop() came while the loop was disabled, and the loop has
\* noticed, stopped the detector and terminated
C15_Witness ==
    /\ Stopped /\ ~running /\ ~enabled
    /\ LoopsTerminated
    /\ \E i \in DOMAIN loops : loops[i].pc = "done"
    /\ detector.cap = "closed"

\* C18: a cycle of the polling loop calls set_volume if and only if the state
\* machine changed state in it, once, with 100 when the new state is SMILING
\* and 0 when it is NOT_SMILING; a cycle without a transition and a cycle while
\* disabled issue no volume command.
C18_VolumeOnlyOnChange ==
    [][\A i \in DOMAIN loops :
          /\ (loops[i].pc = "body" /\ loops'[i].pc # "body") =>
                LET changed == state_machine'.state # state_machine.state
                    target == IF state_machine'.state = SMILING THEN 100 ELSE 0
                    committed == /\ volume'.last_set_value = target
                                 /\ volume'.last_set_time = now
                                 /\ loops'[i].pc = "check"
                    failed == volume' = volume /\ loops'[i].pc = "finally"
                    suppressed == /\ volume' = volume /\ loops'[i].pc = "check"
                                  /\ volume.last_set_value = target
                                  /\ now - volume.last_set_time < MinIntervalMs
                IN  /\ ~changed => (volume' = volume /\ loops'[i].pc = "check")
                    /\ changed => (committed \/ failed \/ suppressed)
          /\ (loops[i].pc = "check" /\ loops'[i] # loops[i]) => volume' = volume
          /\ (loops[i].pc = "check" /\ ~enabled) => loops'[i].pc # "body"]_vars

\* C18's case: a cycle took the machine to SMILING and set the volume to 100
C18_Witness ==
    /\ state_machine.state = SMILING
    /\ volume.last_set_value = 100
    /\ volume.last_set_time = now
    /\ \E i \in DOMAIN loops : loops[i].pc = "check"

\* The control thread is inside calibrate()
InCalibrate ==
    ctl.pc \in {"cal_start", "cal_poll", "cal_apply", "cal_cfg_on", "cal_cfg_off",
                "cal_sm_on", "cal_sm_off", "cal_finally", "cal_resume"}

\* C21: calibrate() leaves, returning or raising, only through its finally
\* clause, whatever the outcome: there it stops the detector, and running is
\* what it was at entry: when the loop was running a new loop thread is
\* started, and when it was not none is.
C21_CalibrateRestores ==
    [][/\ (InCalibrate /\ ~InCalibrate') => ctl.pc \in {"cal_finally", "cal_resume"}
       /\ (ctl.pc = "cal_finally" /\ ctl'.pc # "cal_finally") =>
             /\ detector'.cap # "open"
             /\ ctl'.pc = "cal_resume" <=> ctl.cal.was_running
             /\ ~ctl.cal.was_running =>
                   (running' = FALSE /\ loops' = loops /\ ~InCalibrate')
       /\ (ctl.pc = "cal_resume" /\ ctl'.pc # "cal_resume") =>
             /\ ctl.cal.was_running /\ running' = TRUE
             /\ ~InCalibrate'
             /\ \E i \in DOMAIN loops :
                   /\ loops[i].pc \in {"none", "done"}
                   /\ loops'[i].pc = "start"
                   /\ \A j \in DOMAIN loops \ {i} : loops'[j] = loops[j]]_vars

\* C21's case: calibrate() has returned in the running controller: the old
\* loop thread has ended, the detector is stopped, running is True again and
\* a new loop thread is about to start
C21_Witness ==
    /\ ctl.pc = "idle" /\ ctl.started /\ running
    /\ detector.cap = "closed"
    /\ \E i \in DOMAIN loops : loops[i].pc = "start"
    /\ \E j \in DOMAIN loops : loops[j].pc = "done"

\* The loop threads that are executing iterations of the while loop
Iterating == {i \in DOMAIN loops : loops[i].pc \in {"check", "body"}}

\* C24: over every sequence and interleaving of start(), calibrate() and
\* stop() with the loop threads, at most one thread is executing iterations of
\* _detection_loop at any time.
C24_AtMostOneLoop == Cardinality(Iterating) <= 1

====
